---- MODULE Spec2Model ----
(***************************************************************************)
(* Model of the result refinement in search() of search_planet.py: the     *)
(* containment filter over the items of the API response, the sort by      *)
(* acquisition date and the removal of near duplicates.                    *)
(*                                                                         *)
(* Scene records are the values of `response`; a record's identity is its  *)
(* position in `response`, so `results`, `to_remove` and `out` hold        *)
(* positions (references), while Python's == on records is equality of     *)
(* the values.                                                             *)
(***************************************************************************)
EXTENDS Integers, Sequences, FiniteSets, TLC

\* longest response that is explored
MaxLen == 3

\* datetime.timedelta(seconds=300)
Threshold == 300

Range(s) == {s[p] : p \in 1..Len(s)}

----------------------------------------------------------------------------
(* Geometries: axis-parallel rectangles and points with integer            *)
(* coordinates, or a geometry value shapely cannot build a shape from.     *)

Polygon(x0, y0, x1, y1) ==
    [type |-> "Polygon", xmin |-> x0, ymin |-> y0, xmax |-> x1, ymax |-> y1]

Point(x, y) ==
    [type |-> "Point", xmin |-> x, ymin |-> y, xmax |-> x, ymax |-> y]

Malformed ==
    [type |-> "Malformed", xmin |-> 0, ymin |-> 0, xmax |-> 0, ymax |-> 0]

\* An acquired string: a local time in seconds and its UTC offset, or text
\* that is no date ("garbage").
Stamp(l, o) == [ok |-> TRUE, local |-> l, off |-> o]

Garbage == [ok |-> FALSE, local |-> 0, off |-> 0]

Scene(n, g, a) == [id |-> n, geometry |-> g, acquired |-> a]

Big == Polygon(0, 0, 4, 4)

Part == Polygon(2, 0, 6, 4)

\* The footprints overlap. The polygon lies in Big, touching its boundary,
\* and half in Part; the points lie inside Big and on the boundary of Part,
\* inside both, and inside Part and outside Big.
AOIs ==
    { Polygon(0, 1, 3, 3), Point(2, 2), Point(3, 2), Point(5, 2) }

Scenes ==
    { Scene("s0", Big, Stamp(0, 0)),
      Scene("s0", Big, Stamp(3600, 3600)),
      Scene("s1", Big, Stamp(120, 0)),
      Scene("s2", Big, Stamp(400, 0)),
      Scene("s3", Big, Stamp(700, 0)),
      Scene("s4", Part, Stamp(250, 0)),
      Scene("s5", Part, Garbage),
      Scene("s6", Malformed, Stamp(0, 0)),
      Scene("s7", Big, Garbage) }

Responses == UNION { [1..n -> Scenes] : n \in 0..MaxLen }

----------------------------------------------------------------------------
(* Library functions, by what they compute.                                *)

\* shapely.geometry.shape raises on a geometry it cannot read
shapeFailsSkip(g) == FALSE

shapeFails(g) == g.type = "Malformed"

\* b lies in the closed rectangle a
Within(a, b) ==
    /\ a.xmin <= b.xmin /\ b.xmax <= a.xmax
    /\ a.ymin <= b.ymin /\ b.ymax <= a.ymax

\* the point b lies in the open rectangle a
Interior(a, b) ==
    /\ a.xmin < b.xmin /\ b.xmax < a.xmax
    /\ a.ymin < b.ymin /\ b.ymax < a.ymax

\* the closed rectangles share a point
intersects(a, b) ==
    /\ a.xmin <= b.xmax /\ b.xmin <= a.xmax
    /\ a.ymin <= b.ymax /\ b.ymin <= a.ymax

\* boundary-inclusive containment (shapely's covers)
covers(a, b) == Within(a, b)

\* shapely's a.contains(b): no point of b in the exterior of a, and the
\* interiors meet. The interior of a point is the point.
contains(a, b) ==
    IF b.type = "Point" THEN Interior(a, b) ELSE Within(a, b)

\* dateutil.parser.parse raises on text that is no date
parseFails(a) == ~a.ok

\* dateutil.parser.parse: the instant, in seconds UTC
parse(a) == a.local - a.off

----------------------------------------------------------------------------
VARIABLES
    aoi,        \* the area of interest
    response,   \* the items of the API response, in the order received
    pc,         \* position in search()
    k,          \* items consumed by the filter loop
    results,    \* references to the items kept
    dates,      \* their parsed acquisition dates
    i,          \* index of the duplicate loop
    to_remove,  \* references to the items marked as duplicates
    out,        \* the list returned
    err,        \* the exception raised, if any
    run,        \* which call this is: "first", "again", "pruned"
    origin,     \* for each item of this call, its position in the first call
    first_in,   \* the response of the first call, as received
    first_out   \* what the first call returned

vars == << aoi, response, pc, k, results, dates, i, to_remove, out, err,
           run, origin, first_in, first_out >>

Init ==
    /\ aoi \in AOIs
    /\ response \in Responses
    /\ pc = "filter"
    /\ k = 0
    /\ results = << >>
    /\ dates = << >>
    /\ i = 0
    /\ to_remove = << >>
    /\ out = << >>
    /\ err = "none"
    /\ run = "first"
    /\ origin = [p \in 1..Len(response) |-> p]
    /\ first_in = response
    /\ first_out = << >>

----------------------------------------------------------------------------
(* search(), lines 67-85.                                                  *)

\* results.append(x)
appendResult(rs, x) == Append(rs, x)

\* for x in response.items_iter(limit=None):
\*     if shapely.geometry.shape(x['geometry']).contains(aoi):
\*         results.append(x)
FilterStep ==
    /\ pc = "filter"
    /\ k < Len(response)
    /\ ~shapeFails(response[k + 1].geometry)
    /\ k' = k + 1
    /\ results' = IF contains(response[k + 1].geometry, aoi)
                  THEN appendResult(results, k + 1)
                  ELSE results
    /\ UNCHANGED << aoi, response, pc, dates, i, to_remove, out, err,
                    run, origin, first_in, first_out >>

\* shape() raises inside the loop: the exception leaves search()
FilterRaise ==
    /\ pc = "filter"
    /\ k < Len(response)
    /\ shapeFails(response[k + 1].geometry)
    /\ pc' = "error"
    /\ err' = "geometry"
    /\ UNCHANGED << aoi, response, k, results, dates, i, to_remove, out,
                    run, origin, first_in, first_out >>

\* dates = [dateutil.parser.parse(x['properties']['acquired']) for x in response]
datesOfResponse(resp, rs) ==
    [p \in 1..Len(rs) |-> parse(resp[p].acquired)]

\* dates = [dateutil.parser.parse(x['properties']['acquired']) for x in results]
datesOf(resp, rs) ==
    [p \in 1..Len(rs) |-> parse(resp[rs[p]].acquired)]

\* position of ds[j] in the stable ascending sort of ds
Rank(ds, j) ==
    1 + Cardinality({ m \in 1..Len(ds) :
                        ds[m] < ds[j] \/ (ds[m] = ds[j] /\ m < j) })

\* the dates left in the order of the results as received
unsortedDates(ds) == ds

\* dates.sort()
sortedDates(ds) ==
    [p \in 1..Len(ds) |-> ds[CHOOSE j \in 1..Len(ds) : Rank(ds, j) = p]]

\* the results left in the order received
unsortedResults(ds, rs) == rs

\* [d for d, r in sorted(zip(dates, results), key=lambda t:t[0])]
sortedFirsts(ds, rs) == sortedDates(ds)

\* [r for d, r in sorted(zip(dates, results), key=lambda t:t[0])]
sortedResults(ds, rs) ==
    [p \in 1..Len(rs) |-> rs[CHOOSE j \in 1..Len(ds) : Rank(ds, j) = p]]

\* lines 75-77, the loop being over
Sort ==
    /\ pc = "filter"
    /\ k = Len(response)
    /\ \A p \in 1..Len(results) : ~parseFails(response[results[p]].acquired)
    /\ LET ds == datesOf(response, results)
       IN  /\ results' = sortedResults(ds, results)
           /\ dates' = sortedDates(ds)
    /\ pc' = "dedup"
    /\ i' = 0
    /\ UNCHANGED << aoi, response, k, to_remove, out, err,
                    run, origin, first_in, first_out >>

\* parse() raises on the acquired text of one of the results
SortRaise ==
    /\ pc = "filter"
    /\ k = Len(response)
    /\ \E p \in 1..Len(results) : parseFails(response[results[p]].acquired)
    /\ pc' = "error"
    /\ err' = "acquired"
    /\ UNCHANGED << aoi, response, k, results, dates, i, to_remove, out,
                    run, origin, first_in, first_out >>

\* the gap taken in minutes
isDuplicateMinutes(ds, n) == (ds[n + 2] - ds[n + 1]) * 60 < Threshold

\* dates[i+1] - d < datetime.timedelta(seconds=300), i counted from 0
isDuplicate(ds, n) == ds[n + 2] - ds[n + 1] < Threshold

\* the loop stopping one pair early
pairsShort(rs) == IF Len(rs) < 2 THEN 0 ELSE Len(rs) - 2

\* len(list(zip(dates, results))[:-1])
pairs(rs) == IF Len(rs) = 0 THEN 0 ELSE Len(rs) - 1

\* one turn of: for i, (d, r) in enumerate(list(zip(dates, results))[:-1])
DedupStep ==
    /\ pc = "dedup"
    /\ i < pairs(results)
    /\ to_remove' = IF isDuplicate(dates, i)
                    THEN Append(to_remove, results[i + 1])
                    ELSE to_remove
    /\ i' = i + 1
    /\ UNCHANGED << aoi, response, pc, k, results, dates, out, err,
                    run, origin, first_in, first_out >>

\* r in to_remove: Python compares the records with ==
inList(resp, r, rem) == \E t \in Range(rem) : resp[t] = resp[r]

\* return [r for r in results if r not in to_remove]
Return ==
    /\ pc = "dedup"
    /\ i >= pairs(results)
    /\ out' = SelectSeq(results, LAMBDA r : ~inList(response, r, to_remove))
    /\ pc' = "done"
    /\ UNCHANGED << aoi, response, k, results, dates, i, to_remove, err,
                    run, origin, first_in, first_out >>

----------------------------------------------------------------------------
(* Further calls of search() on what the first call saw or returned.       *)

Call(resp, org, kind) ==
    /\ response' = resp
    /\ origin' = org
    /\ run' = kind
    /\ first_out' = out
    /\ pc' = "filter"
    /\ k' = 0
    /\ results' = << >>
    /\ dates' = << >>
    /\ i' = 0
    /\ to_remove' = << >>
    /\ out' = << >>
    /\ UNCHANGED << aoi, err, first_in >>

\* search() on the list the first call returned
CallAgain ==
    /\ pc = "done"
    /\ run = "first"
    /\ Call([p \in 1..Len(out) |-> response[out[p]]], out, "again")

\* search() on the response without the items that do not contain the AOI
CallPruned ==
    /\ pc = "done"
    /\ run = "first"
    /\ LET keep == SelectSeq([p \in 1..Len(response) |-> p],
                             LAMBDA p : contains(response[p].geometry, aoi))
       IN  Call([p \in 1..Len(keep) |-> response[keep[p]]], keep, "pruned")

Next ==
    \/ FilterStep
    \/ FilterRaise
    \/ Sort
    \/ SortRaise
    \/ DedupStep
    \/ Return
    \/ CallAgain
    \/ CallPruned

Spec == Init /\ [][Next]_vars

----------------------------------------------------------------------------
(* Properties.                                                             *)

\* the acquisition instant of item j of the response
date(j) == parse(response[j].acquired)

\* the integer points of a geometry
PointsOf(g) == (g.xmin .. g.xmax) \X (g.ymin .. g.ymax)

\* every point of the AOI lies in the footprint or on its boundary
CoversAOI(g) == PointsOf(aoi) \subseteq PointsOf(g)

\* the footprint and the AOI share a point
MeetsAOI(g) == PointsOf(aoi) \cap PointsOf(g) # {}

\* the items whose footprint contains the AOI, as the filter decides
Containing ==
    { j \in 1..Len(response) : contains(response[j].geometry, aoi) }

\* the list returned, as positions in the response of the first call
OutOrigin == [p \in 1..Len(out) |-> origin[out[p]]]

\* C1: once search() has returned, results is the containing items in
\* ascending order of date, and every item of it that is followed there by
\* an item less than 300 s later is absent from the list returned; so of a
\* run of such items only the last can be left.
C1_EarlierOfClosePairRemoved ==
    pc = "done" =>
        /\ Range(results) = Containing
        /\ Len(results) = Cardinality(Containing)
        /\ \A p \in 1..(Len(results) - 1) :
              /\ date(results[p]) <= date(results[p + 1])
              /\ date(results[p + 1]) - date(results[p]) < Threshold
                    => results[p] \notin Range(out)

\* three containing items at T, T+120 s, T+400 s: only the last is returned
C1_Witness ==
    /\ pc = "done"
    /\ Len(results) = 3
    /\ date(results[2]) - date(results[1]) = 120
    /\ date(results[3]) - date(results[1]) = 400
    /\ out = << results[3] >>

\* C2: every item returned has a footprint that contains the AOI, and an
\* item whose footprint does not contain the whole AOI is not returned.
C2_OnlyContainingReturned ==
    pc = "done" =>
        \A j \in 1..Len(response) :
            /\ j \in Range(out) => CoversAOI(response[j].geometry)
            /\ ~CoversAOI(response[j].geometry) => j \notin Range(out)

\* a footprint that overlaps the AOI in part is dropped, another is returned
C2_Witness ==
    /\ pc = "done"
    /\ out # << >>
    /\ \E j \in 1..Len(response) :
          /\ MeetsAOI(response[j].geometry)
          /\ ~CoversAOI(response[j].geometry)
          /\ j \notin Range(out)

\* C3: the list returned is in non-decreasing order of acquisition date.
C3_Chronological ==
    pc = "done" =>
        \A p \in 1..(Len(out) - 1) : date(out[p]) <= date(out[p + 1])

\* two items returned that were received in the opposite order
C3_Witness ==
    /\ pc = "done"
    /\ Len(out) >= 2
    /\ out[1] > out[2]

\* C4: a containing item with no successor in the sorted list, or whose
\* successor is at least 300 s later, is returned.
C4_LastOfRunReturned ==
    pc = "done" =>
        \A p \in 1..Len(results) :
            (p = Len(results)
                \/ date(results[p + 1]) - date(results[p]) >= Threshold)
            => results[p] \in Range(out)

\* C5: every item returned is an item of the response, none is returned more
\* often than it was received, and the response is left as it was received.
C5_Passthrough ==
    run = "first" =>
        /\ response = first_in
        /\ pc = "done" =>
              /\ \A p \in 1..Len(out) : out[p] \in 1..Len(first_in)
              /\ \A p, q \in 1..Len(out) : out[p] = out[q] => p = q

\* some items are returned and some are not, two of the response being equal
C5_Witness ==
    /\ run = "first"
    /\ pc = "done"
    /\ out # << >>
    /\ Len(out) < Len(response)
    /\ \E p, q \in 1..Len(response) : p # q /\ response[p] = response[q]

\* C6: no two items returned are less than 300 s apart.
C6_Separation ==
    pc = "done" =>
        \A p, q \in 1..Len(out) :
            p < q => date(out[q]) - date(out[p]) >= Threshold

\* a run of close items was cut down and two items are returned
C6_Witness ==
    /\ pc = "done"
    /\ Len(out) >= 2
    /\ Len(to_remove) >= 1

\* C7: search() on the list it returned returns that list, the same items in
\* the same order.
C7_Idempotent ==
    (run = "again" /\ pc = "done") => OutOrigin = first_out

\* the first call dropped items and returned at least two
C7_Witness ==
    /\ run = "again"
    /\ pc = "done"
    /\ Len(first_out) >= 2
    /\ Len(first_out) < Len(first_in)

\* a response item that search() cannot read
MalformedItem(x) == x.geometry.type = "Malformed" \/ ~x.acquired.ok

\* C8 as stated: search() does not return when any item of the response
\* lacks a well-formed geometry or a parseable acquired text.
C8_AnyMalformedRaises ==
    pc = "done" => \A j \in 1..Len(response) : ~MalformedItem(response[j])

\* C8: search() does not return when an item lacks a well-formed geometry or
\* when an item that passes the containment filter lacks a parseable
\* acquired text; when it raises, nothing is returned.
C8_MalformedKeptRaises ==
    /\ pc = "done" =>
          \A j \in 1..Len(response) :
              /\ response[j].geometry.type # "Malformed"
              /\ j \in Containing => response[j].acquired.ok
    /\ pc = "error" => (out = << >> /\ err \in {"geometry", "acquired"})

\* parse() raised after the filter had kept two items; nothing is returned
C8_Witness ==
    /\ pc = "error"
    /\ err = "acquired"
    /\ Len(results) >= 2
    /\ out = << >>

\* the filter has run over the whole response
Filtered == pc \in {"dedup", "done"}

\* C9 as stated: for a point AOI the filter keeps an item when the point is
\* inside its footprint or on the boundary, and drops it when outside.
C9_BoundaryKept ==
    (Filtered /\ aoi.type = "Point") =>
        \A j \in 1..Len(response) :
            j \in Range(results) <=> CoversAOI(response[j].geometry)

\* C9: for a point AOI the filter keeps an item when the point is strictly
\* inside its footprint, and drops it when the point is on the boundary or
\* outside.
C9_InteriorKept ==
    (Filtered /\ aoi.type = "Point") =>
        \A j \in 1..Len(response) :
            j \in Range(results) <=>
                LET g == response[j].geometry
                IN  /\ g.xmin < aoi.xmin /\ aoi.xmin < g.xmax
                    /\ g.ymin < aoi.ymin /\ aoi.ymin < g.ymax

\* a point AOI on the boundary of one footprint and inside another
C9_Witness ==
    /\ Filtered
    /\ aoi.type = "Point"
    /\ results # << >>
    /\ \E j \in 1..Len(response) :
          /\ CoversAOI(response[j].geometry)
          /\ j \notin Range(results)

\* C10: search() on the response without the items that do not contain the
\* AOI returns what it returns on the whole response.
C10_FilterBeforeDedup ==
    (run = "pruned" /\ pc = "done") => OutOrigin = first_out

\* the first call received items that do not contain the AOI, and of the
\* containing items some are removed as duplicates and some are returned
C10_Witness ==
    /\ run = "pruned"
    /\ pc = "done"
    /\ Len(response) < Len(first_in)
    /\ Len(out) >= 1
    /\ Len(out) < Len(response)

====
